---- MODULE Spec2Model ----
(***************************************************************************)
(* Phase-aware genotype pruning of RBCeq2 (rbceq2/filters/phased.py).      *)
(* One BloodGroup (one gene of one sample) is taken through the filters.   *)
(* The state is the BloodGroup: its type, the three evidence maps, the     *)
(* four allele collections and the removal ledger (filtered_out).          *)
(* The allele table the program reads (rbceq2/db/db.py) is checked on its  *)
(* own: a table is given to Db and to the count check of the two builds.   *)
(***************************************************************************)
EXTENDS Integers, Sequences, FiniteSets, TLC

VARIABLES
    type,                   \* bg.type
    variant_pool,           \* bg.variant_pool: variant -> zygosity
    variant_pool_phase,     \* bg.variant_pool_phase: variant -> phase string
    variant_pool_phase_set, \* bg.variant_pool_phase_set: variant -> phase-set id
    alleles,                \* bg.alleles: allele state -> list
    co_none,                \* bg.alleles[AlleleState.CO] is None
    filtered_out,           \* bg.filtered_out: filter name -> list of removed items
    err,                    \* exception raised by the last call ("none" if it returned)
    pc,                     \* position of the driver
    last,                   \* the last filter call: its name and its phased argument
    added,                  \* history: the pairs filter 6 has appended to NORMAL
    pre,                    \* history: bg.alleles before the first filter call
    mid,                    \* history: bg.alleles after the first run of the pipeline
    df,                     \* the allele table given to Db (self.df)
    db,                     \* the outcome of constructing Db over df
    count_check,            \* the outcome of grch37_38_def_var_count_equal on df
    numeric,                \* the numeric antigen profile given to the comparison
    alpha,                  \* the alphanumeric antigen profile given to the comparison
    compared                \* the outcome of compare_antigen_profiles

gene == << type, variant_pool, variant_pool_phase, variant_pool_phase_set,
           alleles, co_none, filtered_out, err, pc, last, added, pre, mid >>

vars == << type, variant_pool, variant_pool_phase, variant_pool_phase_set,
           alleles, co_none, filtered_out, err, pc, last, added, pre, mid,
           df, db, count_check, numeric, alpha, compared >>

profiles == << numeric, alpha, compared >>

evidence == << type, variant_pool, variant_pool_phase, variant_pool_phase_set >>

-----------------------------------------------------------------------------
(* Bounds of the model *)

MaxPairs == 2   \* longest NORMAL (and CO) list of an input gene state
MaxRows == 2    \* most rows of an input allele table
MaxWeighed == 3  \* longest NORMAL list given to filter 9 on its own

-----------------------------------------------------------------------------
(* Constants of the program *)

CO == "co_existing"
NORMAL == "pairs"
RAW == "raw"
FILT == "filtered"

HOM == "Homozygous"
HET == "Heterozygous"

None == "None"

FilterNames ==
    << "remove_unphased",
       "filter_if_all_HET_vars_on_same_side_and_phased",
       "filter_on_in_relationship_if_HET_vars_on_dif_side_and_phased",
       "filter_on_in_relationship_when_HOM_cant_be_on_one_side",
       "filter_on_in_relationship_if_all_HOM_and_phased",
       "filter_pairs_by_phase",
       "impossible_alleles_phased",
       "rm_ref_if_2x_HET_phased",
       "low_weight_hom",
       "no_defining_variant",
       "ref_not_phased",
       "cant_be_hom_ref_due_to_HET_SNP" >>

\* the keys under which the filters record their removals
LedgerKeys ==
    { "remove_unphased",
      "filter_if_all_HET_vars_on_same_side_and_phased",
      "filter_on_in_relationship_if_HET_vars_on_dif_side_and_phased",
      "filter_on_in_relationship_when_HOM_cant_be_on_one_side",
      "filter_on_in_relationship_if_all_HOM_and_phased",
      "filter_pairs_by_phase",
      "filter_impossible_alleles_phased",
      "rm_ref_if_2x_HET_phased",
      "low_weight_hom",
      "no_defining_variant",
      "ref_not_phased",
      "cant_be_hom_ref_due_to_HET_SNP" }

-----------------------------------------------------------------------------
(* Universe of the inputs: variants, evidence, alleles, pairs *)

Variants == { "v1", "v2", "v3" }

Absent == [zyg |-> "absent", phase |-> "absent", ps |-> "absent"]
EvHom  == [zyg |-> HOM, phase |-> "1/1", ps |-> "."]
EvL1   == [zyg |-> HET, phase |-> "1|0", ps |-> "100"]
EvR1   == [zyg |-> HET, phase |-> "0|1", ps |-> "100"]
EvU    == [zyg |-> HET, phase |-> "0/1", ps |-> "."]
EvL2   == [zyg |-> HET, phase |-> "1|0", ps |-> "200"]

\* what the sample may show at each variant
KindsOf(v) ==
    CASE v = "v1" -> { Absent, EvHom, EvL1 }
      [] v = "v2" -> { EvL1, EvR1, EvU, EvL2 }
      [] v = "v3" -> { EvL1, EvR1, EvU }

Allele(g, dv, ref, w) ==
    [genotype |-> g, defining_variants |-> dv, reference |-> ref, weight_geno |-> w]

Pair(a1, a2) == [allele1 |-> a1, allele2 |-> a2]

REF == Allele("REF", { "v1" }, TRUE, 1000)
H   == Allele("H", { "v1" }, FALSE, 9)
A   == Allele("A", { "v1", "v2" }, FALSE, 1)
B   == Allele("B", { "v1", "v3" }, FALSE, 2)
X   == Allele("X", { "v2" }, FALSE, 1)
Y   == Allele("Y", { "v3" }, FALSE, 2)

\* the reference allele of ABO has the indel that no sample is called at, the
\* reference allele of RHD has no defining variant (the "." of the table)
REF_ABO == Allele("REF_ABO", { "v2", "v3", "9:133257521_T_TC" }, TRUE, 1000)
REF_RHD == Allele("REF_RHD", { "1:." }, TRUE, 1000)

\* the reference allele of ABO made from the GRCh37 column of the table
REF_ABO_GRCh37 == Allele("REF_ABO", { "v2", "v3", "9:136132908_T_TC" }, TRUE, 1000)

Types == { "KN", "ABO", "RHD" }

AlleleList == << REF, REF_ABO, REF_RHD, H, A, B, X, Y >>

AlleleSet == { AlleleList[i] : i \in 1..Len(AlleleList) }

\* reference_alleles[bg.type]
reference_alleles ==
    CASE type = "KN" -> REF
      [] type = "ABO" -> REF_ABO
      [] type = "RHD" -> REF_RHD

\* the candidate pairs of a gene whose reference allele is ref
PairUniverse(ref) ==
    << Pair(H, H), Pair(H, A), Pair(H, B), Pair(A, B), Pair(X, Y), Pair(A, Y),
       Pair(B, X), Pair(X, X), Pair(ref, ref), Pair(ref, H), Pair(ref, X),
       Pair(A, ref), Pair(Y, X), Pair(H, X) >>

-----------------------------------------------------------------------------
(* Helpers for Python's dict, list and str *)

Get(m, k) == IF k \in DOMAIN m THEN m[k] ELSE None

InList(x, s) == \E i \in 1..Len(s) : s[i] = x

ToSet(s) == { s[i] : i \in 1..Len(s) }

\* '"|" in phase' over the phase strings of the model
HasBar(phase) == phase \in { "1|0", "0|1" }

\* 'phase_set.isdigit()' over the phase-set ids of the model
IsDigit(ps) == ps \in { "100", "200" }

-----------------------------------------------------------------------------
(* core_logic/alleles.py: Allele, Pair, BloodGroup *)

\* Allele.__contains__: 'a in b'
contained(a, b) == a.defining_variants \subseteq b.defining_variants

\* Pair.__eq__: a pair is unordered
PairEq(p, q) == { p.allele1, p.allele2 } = { q.allele1, q.allele2 }

\* 'for allele in pair', pair.alleles
PairAlleles(p) == { p.allele1, p.allele2 }

contains_reference(p) == p.allele1.reference \/ p.allele2.reference

all_reference(p) == p.allele1.reference /\ p.allele2.reference

InPairs(p, s) == \E i \in 1..Len(s) : PairEq(s[i], p)

\* BloodGroup.remove_pairs on the value b of a BloodGroup
remove_pairs(b, to_remove, filter_name, allele_state) ==
    [b EXCEPT
        !.alleles[allele_state] =
            SelectSeq(b.alleles[allele_state], LAMBDA p : ~InPairs(p, to_remove)),
        !.filtered_out[filter_name] = b.filtered_out[filter_name] \o to_remove]

\* BloodGroup.remove_alleles on the value b of a BloodGroup
remove_alleles(b, to_remove, filter_name, allele_state) ==
    [b EXCEPT
        !.alleles[allele_state] =
            SelectSeq(b.alleles[allele_state], LAMBDA a : ~InList(a, to_remove)),
        !.filtered_out[filter_name] = b.filtered_out[filter_name] \o to_remove]

-----------------------------------------------------------------------------
(* filters/shared_filter_functionality.py *)

flatten_alleles(pairs) ==
    UNION { PairAlleles(pairs[i]) : i \in 1..Len(pairs) }

all_hom(current_allele) ==
    \A allele_var \in current_allele.defining_variants :
        Get(variant_pool, allele_var) = HOM

\* the test of identify_unphased without the comparison of the two phases
unphased_whatever_phase(allele) ==
    \E variant \in allele.defining_variants :
        /\ Get(variant_pool, variant) = HET
        /\ \E variant2 \in allele.defining_variants :
              /\ variant # variant2
              /\ Get(variant_pool, variant2) = HET
              /\ variant_pool_phase_set[variant] = variant_pool_phase_set[variant2]

\* the test identify_unphased makes on one allele
unphased(allele) ==
    \E variant \in allele.defining_variants :
        /\ Get(variant_pool, variant) = HET
        /\ \E variant2 \in allele.defining_variants :
              /\ variant # variant2
              /\ Get(variant_pool, variant2) = HET
              /\ variant_pool_phase_set[variant] = variant_pool_phase_set[variant2]
              /\ variant_pool_phase[variant] # variant_pool_phase[variant2]

identify_unphased(allele_list) == SelectSeq(allele_list, unphased)

\* proceed without its test of the gene's type
proceed_for_any_type(b, allele_state) ==
    IF allele_state # CO
    THEN TRUE
    ELSE ~b.co_none

proceed(b, allele_state) ==
    IF allele_state # CO
    THEN TRUE
    ELSE ~(type # "KN" \/ b.co_none)

-----------------------------------------------------------------------------
(* filters/phased.py *)

\* the value of the BloodGroup in the current state
bg == [alleles |-> alleles, co_none |-> co_none,
       filtered_out |-> filtered_out, err |-> "none", added |-> added]

\* the round made for NORMAL only
InNormalOnly(b, filter_name, allele_state, to_remove) ==
    IF allele_state # NORMAL
    THEN b
    ELSE IF to_remove # << >>
         THEN remove_pairs(b, to_remove, filter_name, allele_state)
         ELSE b

\* one round of 'for allele_state in [NORMAL, CO]: if not proceed: continue;
\* ...; if to_remove: bg.remove_pairs(to_remove, name, allele_state)'
InState(b, filter_name, allele_state, to_remove) ==
    IF ~proceed(b, allele_state)
    THEN b
    ELSE IF to_remove # << >>
         THEN remove_pairs(b, to_remove, filter_name, allele_state)
         ELSE b

\* filter 1 without its test of the phased flag
remove_unphased_whatever_phased(b, phased) ==
    LET to_remove == identify_unphased(b.alleles[FILT])
    IN  IF to_remove # << >>
        THEN remove_alleles(b, to_remove, "remove_unphased", FILT)
        ELSE b

\* filter 1
remove_unphased(b, phased) ==
    IF ~phased
    THEN b
    ELSE LET to_remove == identify_unphased(b.alleles[FILT])
         IN  IF to_remove # << >>
             THEN remove_alleles(b, to_remove, "remove_unphased", FILT)
             ELSE b

\* the test of filter 2 with variant2 drawn from allele1, not allele2
het_vars_of_allele1_on_same_side(allele1, allele2) ==
    \E variant \in allele1.defining_variants :
        /\ Get(variant_pool, variant) = HET
        /\ \E variant2 \in allele1.defining_variants :
              /\ Get(variant_pool, variant2) = HET
              /\ variant_pool_phase[variant] = variant_pool_phase[variant2]
              /\ HasBar(variant_pool_phase[variant])

\* the test of filter 2 asking in addition that the two variants lie in one
\* phase set
het_vars_on_same_side_of_one_phase_set(allele1, allele2) ==
    \E variant \in allele1.defining_variants :
        /\ Get(variant_pool, variant) = HET
        /\ \E variant2 \in allele2.defining_variants :
              /\ Get(variant_pool, variant2) = HET
              /\ variant_pool_phase[variant] = variant_pool_phase[variant2]
              /\ variant_pool_phase_set[variant] = variant_pool_phase_set[variant2]
              /\ HasBar(variant_pool_phase[variant])

\* filter 2, the test on one pair: some HET variant of allele1 and some HET
\* variant of allele2 carry the same phase and that phase is ordered
het_vars_on_same_side(allele1, allele2) ==
    \E variant \in allele1.defining_variants :
        /\ Get(variant_pool, variant) = HET
        /\ \E variant2 \in allele2.defining_variants :
              /\ Get(variant_pool, variant2) = HET
              /\ variant_pool_phase[variant] = variant_pool_phase[variant2]
              /\ HasBar(variant_pool_phase[variant])

\* filter 2 asking that all HET variants of the two alleles are on the same
\* side, as its name says
to_remove_all_on_same_side(b, allele_state) ==
    SelectSeq(b.alleles[allele_state],
              LAMBDA pair :
                  /\ het_vars_on_same_side(pair.allele1, pair.allele2)
                  /\ \A variant \in pair.allele1.defining_variants :
                        \A variant2 \in pair.allele2.defining_variants :
                            Get(variant_pool, variant) = HET
                            /\ Get(variant_pool, variant2) = HET =>
                                variant_pool_phase[variant] = variant_pool_phase[variant2])

\* filter 2, its to_remove, each pair once (remove_pairs takes a pair out
\* once however often to_remove names it)
to_remove_same_side(b, allele_state) ==
    SelectSeq(b.alleles[allele_state],
              LAMBDA pair : het_vars_on_same_side(pair.allele1, pair.allele2))

\* filter 2
filter_if_all_HET_vars_on_same_side_and_phased(b, phased) ==
    IF ~phased
    THEN b
    ELSE LET in_normal == InState(b, "filter_if_all_HET_vars_on_same_side_and_phased", NORMAL,
                                 to_remove_same_side(b, NORMAL))
         IN  InState(in_normal, "filter_if_all_HET_vars_on_same_side_and_phased", CO,
                     to_remove_same_side(in_normal, CO))


find_phase(allele) ==
    { Get(variant_pool_phase, variant) : variant \in allele.defining_variants }
        \ { "0/1", "1/0" }

allele_phased(allele) ==
    LET phase_sets == { Get(variant_pool_phase_set, variant) :
                            variant \in allele.defining_variants }
    IN  IF phase_sets = { "." }
        THEN TRUE
        ELSE Cardinality({ phase_set \in phase_sets : IsDigit(phase_set) }) = 1

\* filter 3, the test that puts a pair into pairs_with_HET
pair_with_HET(pair) ==
    /\ ~(all_hom(pair.allele1) \/ all_hom(pair.allele2))
    /\ allele_phased(pair.allele1)
    /\ allele_phased(pair.allele2)
    /\ LET phase1 == find_phase(pair.allele1)
           phase2 == find_phase(pair.allele2)
       IN  /\ ~(phase1 = { None } \/ phase2 = { None })
           /\ ~(phase1 = { "unknown" } \/ phase2 = { "unknown" })
           /\ Cardinality(phase1) = 1
           /\ Cardinality(phase2) = 1

to_remove_HET_vars_on_dif_side(b, allele_state) ==
    LET pairs == b.alleles[allele_state]
        pairs_with_HET == SelectSeq(pairs, pair_with_HET)
    IN  SelectSeq(pairs,
            LAMBDA pair :
                \E i \in 1..Len(pairs_with_HET) :
                    \E allele \in PairAlleles(pair) :
                        /\ all_hom(allele)
                        /\ \A flat_allele \in flatten_alleles(<< pairs_with_HET[i] >>) :
                              contained(allele, flat_allele))

\* filter 3
filter_on_in_relationship_if_HET_vars_on_dif_side_and_phased(b, phased) ==
    IF ~phased
    THEN b
    ELSE LET in_normal == InState(b, "filter_on_in_relationship_if_HET_vars_on_dif_side_and_phased", NORMAL,
                                 to_remove_HET_vars_on_dif_side(b, NORMAL))
         IN  InState(in_normal, "filter_on_in_relationship_if_HET_vars_on_dif_side_and_phased", CO,
                     to_remove_HET_vars_on_dif_side(in_normal, CO))

\* filter 4, the test that puts a pair into fully_phased_pairs
fully_phased(pair) ==
    /\ allele_phased(pair.allele1)
    /\ allele_phased(pair.allele2)
    /\ LET phase1 == find_phase(pair.allele1)
           phase2 == find_phase(pair.allele2)
       IN  /\ ~(phase1 = { None } \/ phase2 = { None })
           /\ ~(phase1 = { "unknown" } \/ phase2 = { "unknown" })

to_remove_HOM_cant_be_on_one_side(b, allele_state) ==
    LET fully_phased_pairs == SelectSeq(b.alleles[allele_state], fully_phased)
        flattened_alleles == flatten_alleles(fully_phased_pairs)
    IN  SelectSeq(fully_phased_pairs,
            LAMBDA pair :
                /\ all_hom(pair.allele1) \/ all_hom(pair.allele2)
                /\ LET hom_allele == IF all_hom(pair.allele1)
                                     THEN pair.allele1 ELSE pair.allele2
                       homs_partner_allele == IF all_hom(pair.allele1)
                                              THEN pair.allele2 ELSE pair.allele1
                       phase_of_homs_partner == find_phase(homs_partner_allele)
                   IN  \E flat_allele \in flattened_alleles :
                          /\ flat_allele \notin PairAlleles(pair)
                          /\ find_phase(flat_allele) # phase_of_homs_partner
                          /\ contained(hom_allele, flat_allele))

\* filter 4
filter_on_in_relationship_when_HOM_cant_be_on_one_side(b, phased) ==
    IF ~phased
    THEN b
    ELSE LET in_normal == InState(b, "filter_on_in_relationship_when_HOM_cant_be_on_one_side", NORMAL,
                                 to_remove_HOM_cant_be_on_one_side(b, NORMAL))
         IN  InState(in_normal, "filter_on_in_relationship_when_HOM_cant_be_on_one_side", CO,
                     to_remove_HOM_cant_be_on_one_side(in_normal, CO))

\* filter 5, the test on one pair of a state whose alleles are flattened_alleles
\* the test of filter 5 asking for containment in all alleles, not in any
identical_hom_pair_in_all(pair, flattened_alleles) ==
    /\ pair.allele1 = pair.allele2
    /\ all_hom(pair.allele1)
    /\ \A flat_allele \in flattened_alleles : contained(pair.allele1, flat_allele)

\* filter 5, the test on one pair
identical_hom_pair(pair, flattened_alleles) ==
    /\ pair.allele1 = pair.allele2
    /\ all_hom(pair.allele1)
    /\ \E flat_allele \in flattened_alleles : contained(pair.allele1, flat_allele)

\* filter 5 with the comparison of its length guard turned round
to_remove_all_HOM_when_short(b, allele_state) ==
    LET pairs == b.alleles[allele_state]
    IN  IF Len(pairs) >= 2
        THEN << >>
        ELSE SelectSeq(pairs,
                 LAMBDA pair : identical_hom_pair(pair, flatten_alleles(pairs)))

to_remove_all_HOM(b, allele_state) ==
    LET pairs == b.alleles[allele_state]
    IN  IF Len(pairs) < 2
        THEN << >>
        ELSE SelectSeq(pairs,
                 LAMBDA pair : identical_hom_pair(pair, flatten_alleles(pairs)))

\* filter 5
filter_on_in_relationship_if_all_HOM_and_phased(b, phased) ==
    IF ~phased
    THEN b
    ELSE LET in_normal == InState(b, "filter_on_in_relationship_if_all_HOM_and_phased", NORMAL,
                                 to_remove_all_HOM(b, NORMAL))
         IN  InState(in_normal, "filter_on_in_relationship_if_all_HOM_and_phased", CO,
                     to_remove_all_HOM(in_normal, CO))

\* set(_get_allele_phase_info(allele, phase_dict)), every key present
get_allele_phase_info(allele, phase_dict) ==
    { phase_dict[variant] : variant \in allele.defining_variants }

\* phase_dict[variant] raises KeyError on a pair that filter 6 looks at
key_error_in_pairs(pairs) ==
    \E i \in 1..Len(pairs) :
        /\ ~contains_reference(pairs[i])
        /\ \E variant \in pairs[i].allele1.defining_variants
                            \cup pairs[i].allele2.defining_variants :
              \/ variant \notin DOMAIN variant_pool_phase
              \/ variant \notin DOMAIN variant_pool
              \/ variant \notin DOMAIN variant_pool_phase_set

\* filter 6, the test on one pair
in_same_phase(pair) ==
    /\ ~contains_reference(pair)
    /\ LET p1_phases == get_allele_phase_info(pair.allele1, variant_pool_phase)
           p1_zygo == get_allele_phase_info(pair.allele1, variant_pool)
           p1_phase_sets == get_allele_phase_info(pair.allele1, variant_pool_phase_set)
           p2_phases == get_allele_phase_info(pair.allele2, variant_pool_phase)
           p2_zygo == get_allele_phase_info(pair.allele2, variant_pool)
           p2_phase_sets == get_allele_phase_info(pair.allele2, variant_pool_phase_set)
           phase_set == p1_phase_sets \cup p2_phase_sets
       IN  /\ Cardinality(phase_set) = 1
           /\ ~(p1_zygo = { HOM } /\ p2_zygo = { HOM })
           /\ p1_phases = p2_phases

\* filter 6 appending a pair of the reference with itself as well
reference_pairs_and_reference(to_remove) ==
    [k \in 1..(3 * Len(to_remove)) |->
        IF k % 3 = 1
        THEN Pair(reference_alleles, to_remove[(k + 2) \div 3].allele1)
        ELSE IF k % 3 = 2
        THEN Pair(reference_alleles, to_remove[(k + 1) \div 3].allele2)
        ELSE Pair(reference_alleles, reference_alleles)]

\* filter 6 pairing each allele of a removed pair with itself
self_pairs(to_remove) ==
    [k \in 1..(2 * Len(to_remove)) |->
        IF k % 2 = 1
        THEN Pair(to_remove[(k + 1) \div 2].allele1, to_remove[(k + 1) \div 2].allele1)
        ELSE Pair(to_remove[k \div 2].allele2, to_remove[k \div 2].allele2)]

\* the pairs filter 6 appends for the removed pairs: for each of them
\* Pair(reference, allele1) and then Pair(reference, allele2)
reference_pairs(to_remove) ==
    [k \in 1..(2 * Len(to_remove)) |->
        IF k % 2 = 1
        THEN Pair(reference_alleles, to_remove[(k + 1) \div 2].allele1)
        ELSE Pair(reference_alleles, to_remove[k \div 2].allele2)]

\* filter 6 appending when no pair without the reference is left
all_reference_free_pairs_removed(pairs, to_remove) ==
    Len(SelectSeq(pairs, LAMBDA pair : ~contains_reference(pair))) = Len(to_remove)

\* filter 6 never appending
more_pairs_removed_than_held(pairs, to_remove) == Len(pairs) < Len(to_remove)

\* filter 6: whether the reference-paired pairs are appended
all_pairs_removed(pairs, to_remove) == Len(pairs) = Len(to_remove)

\* filter 6
filter_pairs_by_phase(b, phased) ==
    IF ~phased
    THEN b
    ELSE IF key_error_in_pairs(b.alleles[NORMAL])
    THEN [b EXCEPT !.err = "KeyError"]
    ELSE LET to_remove == SelectSeq(b.alleles[NORMAL], in_same_phase)
             appended ==
                IF all_pairs_removed(b.alleles[NORMAL], to_remove)
                THEN [b EXCEPT !.alleles[NORMAL] =
                                    b.alleles[NORMAL] \o reference_pairs(to_remove),
                               !.added = b.added \o reference_pairs(to_remove)]
                ELSE b
         IN  IF to_remove # << >>
             THEN remove_pairs(appended, to_remove, "filter_pairs_by_phase", NORMAL)
             ELSE appended


\* check_phase holding also of an allele without any qualifying variant
check_phase_true_when_none_qualifies(pool, current_allele, hom) ==
    LET phase_sets == { pool[variant] :
                          variant \in { w \in DOMAIN pool :
                                          /\ w \in current_allele.defining_variants
                                          /\ pool[w] # hom } }
    IN  Cardinality(phase_sets) <= 1

\* check_phase: len(set(phase_sets)) == 1
check_phase(pool, current_allele, hom) ==
    LET phase_sets == { pool[variant] :
                          variant \in { w \in DOMAIN pool :
                                          /\ w \in current_allele.defining_variants
                                          /\ pool[w] # hom } }
    IN  Cardinality(phase_sets) = 1

\* the alleles of the list that are 'in' an allele of the list
iterate_over_list(allele_list) ==
    { allele \in allele_list : \E allele2 \in allele_list : contained(allele, allele2) }

\* filter 7: the phases of an allele other than "1/1" (every variant has a phase)
phases_of(allele) ==
    { variant_pool_phase[variant] : variant \in allele.defining_variants } \ { "1/1" }

\* 'phase in "unknown" or "/" in phase' over the phase strings of the model
unknown_or_unordered(phase) == phase \in { "0/1", "1/0", "1/1" }

\* filter 7 on one allele state; stop: the function has returned or raised
impossible_alleles_in_state(b, allele_state) ==
    LET pairs == b.alleles[allele_state]
        alleles_with_variants_in_same_phase_set ==
            { allele \in flatten_alleles(pairs) :
                check_phase(variant_pool_phase_set, allele, ".") }
        alleles_with_variants_in_same_phase ==
            { allele \in alleles_with_variants_in_same_phase_set :
                check_phase(variant_pool_phase, allele, "1/1") }
        key_error ==
            \E allele \in alleles_with_variants_in_same_phase :
                ~(allele.defining_variants \subseteq DOMAIN variant_pool_phase)
        assertion_error ==
            \E allele \in alleles_with_variants_in_same_phase :
                \/ Cardinality(phases_of(allele)) # 1
                \/ \E phase \in phases_of(allele) :
                      /\ phase \notin { "1|0", "0|1", "1" }
                      /\ ~unknown_or_unordered(phase)
        l1 == { allele \in alleles_with_variants_in_same_phase :
                  phases_of(allele) = { "1|0" } }
        l2 == { allele \in alleles_with_variants_in_same_phase :
                  phases_of(allele) = { "0|1" } }
        l3 == { allele \in alleles_with_variants_in_same_phase :
                  phases_of(allele) = { "1" } }
        alleles_to_remove ==
            iterate_over_list(l1) \cup iterate_over_list(l2) \cup iterate_over_list(l3)
        to_remove ==
            SelectSeq(pairs,
                LAMBDA pair : \/ pair.allele1 \in alleles_to_remove
                              \/ pair.allele2 \in alleles_to_remove)
    IN  IF Len(pairs) \in { 1, 0 }
        THEN [b |-> b, stop |-> TRUE]
        ELSE IF key_error
        THEN [b |-> [b EXCEPT !.err = "KeyError"], stop |-> TRUE]
        ELSE IF assertion_error \/ Len(to_remove) = Len(pairs)
        THEN [b |-> [b EXCEPT !.err = "AssertionError"], stop |-> TRUE]
        ELSE IF to_remove # << >>
        THEN [b |-> remove_pairs(b, to_remove, "filter_impossible_alleles_phased",
                                 allele_state),
              stop |-> FALSE]
        ELSE [b |-> b, stop |-> FALSE]

\* filter 7
impossible_alleles_phased(b, phased) ==
    IF ~phased
    THEN b
    ELSE LET normal == impossible_alleles_in_state(b, NORMAL)
         IN  IF normal.stop \/ ~proceed(normal.b, CO)
             THEN normal.b
             ELSE impossible_alleles_in_state(normal.b, CO).b

allele_phase(pool, allele) ==
    { pool[variant] : variant \in DOMAIN pool \cap allele.defining_variants }

possible_to_use_phase(pair) ==
    /\ check_phase(variant_pool_phase_set, pair.allele1, ".")
    /\ check_phase(variant_pool_phase, pair.allele2, "1/1")
    /\ check_phase(variant_pool_phase_set, pair.allele2, ".")
    /\ check_phase(variant_pool_phase, pair.allele2, "1/1")

\* 'assert phase1 != phase2' fails on the pair
same_allele_phase(pair) ==
    allele_phase(variant_pool_phase, pair.allele1)
        = allele_phase(variant_pool_phase, pair.allele2)

\* filter 8
rm_ref_if_2x_HET_phased(b, phased) ==
    IF ~phased
    THEN b
    ELSE LET pairs == b.alleles[NORMAL]
             ref_free == SelectSeq(pairs,
                            LAMBDA pair : ~(pair.allele1.reference \/ pair.allele2.reference))
             to_remove == SelectSeq(pairs,
                            LAMBDA pair : pair.allele1.reference \/ pair.allele2.reference)
             usable == SelectSeq(ref_free, possible_to_use_phase)
             phased_ref_free_pair_exists == usable # << >>
         IN  IF \E i \in 1..Len(usable) : same_allele_phase(usable[i])
             THEN [b EXCEPT !.err = "AssertionError"]
             ELSE IF to_remove # << >> /\ phased_ref_free_pair_exists
             THEN remove_pairs(b, to_remove, "rm_ref_if_2x_HET_phased", NORMAL)
             ELSE b

pair_weight(pair) == pair.allele1.weight_geno + pair.allele2.weight_geno

\* filter 9 choosing the first pair of the list with the greatest weight
max_pair(pairs) ==
    LET i == CHOOSE j \in 1..Len(pairs) :
                /\ \A k \in 1..Len(pairs) : pair_weight(pairs[j]) >= pair_weight(pairs[k])
                /\ \A k \in 1..(j - 1) : pair_weight(pairs[k]) # pair_weight(pairs[j])
    IN  pairs[i]

\* min(pairs, key=weight): the first pair of the list with the least weight
min_pair(pairs) ==
    LET i == CHOOSE j \in 1..Len(pairs) :
                /\ \A k \in 1..Len(pairs) : pair_weight(pairs[j]) <= pair_weight(pairs[k])
                /\ \A k \in 1..(j - 1) : pair_weight(pairs[k]) # pair_weight(pairs[j])
    IN  pairs[i]

\* filter 9
low_weight_hom(b, phased) ==
    IF ~phased
    THEN b
    ELSE LET pairs == SelectSeq(b.alleles[NORMAL], possible_to_use_phase)
             weights == { pair_weight(pairs[i]) : i \in 1..Len(pairs) }
         IN  IF \E i \in 1..Len(pairs) : same_allele_phase(pairs[i])
             THEN [b EXCEPT !.err = "AssertionError"]
             ELSE IF Len(pairs) = 0 \/ Len(pairs) = 1 \/ Cardinality(weights) = 1
             THEN b
             ELSE LET best_pair == min_pair(pairs)
                      to_remove == SelectSeq(b.alleles[NORMAL],
                                       LAMBDA pair : ~PairEq(pair, best_pair))
                  IN  IF to_remove # << >>
                      THEN remove_pairs(b, to_remove, "low_weight_hom", NORMAL)
                      ELSE b

\* 'variant.endswith(".")' over the variants of the model
ends_with_dot(variant) == variant \in { "1:." }

\* filter 10 without the two variants it passes over
lacks_any_variant(allele) ==
    /\ allele.reference
    /\ ~(\A variant \in allele.defining_variants : ends_with_dot(variant))
    /\ \E variant \in allele.defining_variants : variant \notin DOMAIN variant_pool

\* filter 10, the test on one reference allele
lacks_defining_variant(allele) ==
    /\ allele.reference
    /\ ~(\A variant \in allele.defining_variants : ends_with_dot(variant))
    /\ \E variant \in allele.defining_variants :
          /\ ~(variant = "9:133257521_T_TC" \/ variant = "136132908_T_TC")
          /\ variant \notin DOMAIN variant_pool

\* filter 10
no_defining_variant(b, phased) ==
    IF ~phased
    THEN b
    ELSE LET to_remove ==
                SelectSeq(b.alleles[NORMAL],
                    LAMBDA pair : \E allele \in PairAlleles(pair) :
                                      lacks_defining_variant(allele))
         IN  IF to_remove # << >>
             THEN remove_pairs(b, to_remove, "no_defining_variant", NORMAL)
             ELSE b

\* filter 11 without its test that the allele is a reference allele
any_allele_not_phased(b, phased) ==
    IF ~phased
    THEN b
    ELSE LET to_remove ==
                SelectSeq(b.alleles[NORMAL],
                    LAMBDA pair : \E allele \in PairAlleles(pair) :
                                      InList(allele, b.filtered_out["remove_unphased"]))
         IN  IF to_remove # << >>
             THEN remove_pairs(b, to_remove, "ref_not_phased", NORMAL)
             ELSE b

\* filter 11
ref_not_phased(b, phased) ==
    IF ~phased
    THEN b
    ELSE LET to_remove ==
                SelectSeq(b.alleles[NORMAL],
                    LAMBDA pair : \E allele \in PairAlleles(pair) :
                                      /\ allele.reference
                                      /\ InList(allele, b.filtered_out["remove_unphased"]))
         IN  IF to_remove # << >>
             THEN remove_pairs(b, to_remove, "ref_not_phased", NORMAL)
             ELSE b

\* filter 12 refusing to return once it has marked every pair of NORMAL
cant_be_hom_ref_asserting_state_left(b, phased) ==
    IF ~phased
    THEN b
    ELSE LET to_remove ==
                SelectSeq(b.alleles[NORMAL],
                    LAMBDA pair :
                        /\ all_reference(pair)
                        /\ \E variant \in pair.allele1.defining_variants :
                              Get(variant_pool, variant) = HET)
         IN  IF to_remove # << >>
             THEN IF Len(to_remove) = Len(b.alleles[NORMAL])
                  THEN [b EXCEPT !.err = "AssertionError"]
                  ELSE remove_pairs(b, to_remove, "cant_be_hom_ref_due_to_HET_SNP", NORMAL)
             ELSE b

\* filter 12
cant_be_hom_ref_due_to_HET_SNP(b, phased) ==
    IF ~phased
    THEN b
    ELSE LET to_remove ==
                SelectSeq(b.alleles[NORMAL],
                    LAMBDA pair :
                        /\ all_reference(pair)
                        /\ \E variant \in pair.allele1.defining_variants :
                              Get(variant_pool, variant) = HET)
         IN  IF to_remove # << >>
             THEN remove_pairs(b, to_remove, "cant_be_hom_ref_due_to_HET_SNP", NORMAL)
             ELSE b


-----------------------------------------------------------------------------
(* The input gene states *)

\* the lists of at most MaxPairs pairs, in the order of PairUniverse
PairLists(ref) ==
    LET idx == UNION { [1..n -> 1..Len(PairUniverse(ref))] : n \in 0..MaxPairs }
        inc == { s \in idx : \A i \in 1..(Len(s) - 1) : s[i] < s[i + 1] }
    IN  { [i \in 1..Len(s) |-> PairUniverse(ref)[s[i]]] : s \in inc }

\* a candidate allele that is not the reference has all its defining variants
\* in the sample's variant pool
WellFormed(pairs, present) ==
    \A a \in flatten_alleles(pairs) : a.reference \/ a.defining_variants \subseteq present

\* the alleles of the pairs, in the order of AlleleList
AllelesOf(pairs) == SelectSeq(AlleleList, LAMBDA a : a \in flatten_alleles(pairs))

Evidences ==
    { ev \in [Variants -> { Absent, EvHom, EvL1, EvR1, EvU, EvL2 }] :
        \A v \in Variants : ev[v] \in KindsOf(v) }

InitGene ==
    /\ type \in Types
    /\ \E ev \in Evidences :
          LET present == { v \in Variants : ev[v] # Absent }
          IN  /\ variant_pool = [v \in present |-> ev[v].zyg]
              /\ variant_pool_phase = [v \in present |-> ev[v].phase]
              /\ variant_pool_phase_set = [v \in present |-> ev[v].ps]
    /\ co_none \in BOOLEAN
    /\ type = "RHD" => co_none
    /\ \E pairs \in PairLists(reference_alleles) :
          /\ WellFormed(pairs, DOMAIN variant_pool)
          /\ alleles = [s \in { RAW, FILT, NORMAL, CO } |->
                          CASE s = NORMAL -> pairs
                            [] s = CO -> IF co_none THEN << >> ELSE pairs
                            [] OTHER -> AllelesOf(pairs)]
    /\ filtered_out = [k \in LedgerKeys |-> << >>]
    /\ err = "none"
    /\ last = [filter |-> "none", phased |-> FALSE]
    /\ added = << >>
    /\ pre = alleles
    /\ mid = alleles

\* the lists of at most MaxWeighed pairs, in the order of PairUniverse
WeighedLists(ref) ==
    LET idx == UNION { [1..n -> 1..Len(PairUniverse(ref))] : n \in 0..MaxWeighed }
        inc == { s \in idx : \A i \in 1..(Len(s) - 1) : s[i] < s[i + 1] }
    IN  { [i \in 1..Len(s) |-> PairUniverse(ref)[s[i]]] : s \in inc }

\* the gene states given to filter 9 on its own: the longer lists, CO absent
InitWeighing ==
    /\ type \in Types
    /\ \E ev \in Evidences :
          LET present == { v \in Variants : ev[v] # Absent }
          IN  /\ variant_pool = [v \in present |-> ev[v].zyg]
              /\ variant_pool_phase = [v \in present |-> ev[v].phase]
              /\ variant_pool_phase_set = [v \in present |-> ev[v].ps]
    /\ co_none = TRUE
    /\ \E pairs \in WeighedLists(reference_alleles) :
          /\ WellFormed(pairs, DOMAIN variant_pool)
          /\ alleles = [s \in { RAW, FILT, NORMAL, CO } |->
                          CASE s = NORMAL -> pairs
                            [] s = CO -> << >>
                            [] OTHER -> AllelesOf(pairs)]
    /\ filtered_out = [k \in LedgerKeys |-> << >>]
    /\ err = "none"
    /\ last = [filter |-> "none", phased |-> FALSE]
    /\ added = << >>
    /\ pre = alleles
    /\ mid = alleles

\* the ABO gene states of a run on GRCh37: the reference allele carries the
\* GRCh37 name of the indel
InitGRCh37 ==
    /\ type = "ABO"
    /\ \E ev \in Evidences :
          LET present == { v \in Variants : ev[v] # Absent }
          IN  /\ variant_pool = [v \in present |-> ev[v].zyg]
              /\ variant_pool_phase = [v \in present |-> ev[v].phase]
              /\ variant_pool_phase_set = [v \in present |-> ev[v].ps]
    /\ co_none \in BOOLEAN
    /\ \E pairs \in PairLists(REF_ABO_GRCh37) :
          /\ WellFormed(pairs, DOMAIN variant_pool)
          /\ alleles = [s \in { RAW, FILT, NORMAL, CO } |->
                          CASE s = NORMAL -> pairs
                            [] s = CO -> << >>
                            [] OTHER -> SelectSeq(<< REF_ABO_GRCh37 >> \o AlleleList,
                                            LAMBDA a : a \in flatten_alleles(pairs))]
    /\ filtered_out = [k \in LedgerKeys |-> << >>]
    /\ err = "none"
    /\ last = [filter |-> "none", phased |-> FALSE]
    /\ added = << >>
    /\ pre = alleles
    /\ mid = alleles

-----------------------------------------------------------------------------
(* db/db.py: the allele table, Db and the count check *)

\* the cells of the columns GRCh37 and GRCh38, a string being the sequence
\* of its characters
Cells ==
    { << "a" >>,
      << "a", ",", "b" >>,
      << "a", ",", "b", ",", "c" >>,
      << "a", ",", "b", " " >>,
      << "." >> }

\* the columns Db may be told to read the defining variants from (self.ref)
RefColumns == { "GRCh37", "GRCh38" }

\* one line of the table
Rows == [GRCh37 : Cells, GRCh38 : Cells, Reference_genotype : { "Yes", "No" }]

\* the tables of at most MaxRows lines
Tables == UNION { [1..n -> Rows] : n \in 0..MaxRows }

\* str.strip()
strip(s) ==
    LET kept == { i \in 1..Len(s) : s[i] # " " }
    IN  IF kept = { }
        THEN << >>
        ELSE SubSeq(s, CHOOSE i \in kept : \A j \in kept : i <= j,
                       CHOOSE i \in kept : \A j \in kept : i >= j)

\* str.split(","): the pieces between the commas, in order
split(s) ==
    LET starts == { 1 } \cup { i + 1 : i \in { j \in 1..Len(s) : s[j] = "," } }
        start(k) == CHOOSE b \in starts : Cardinality({ x \in starts : x < b }) = k - 1
        stops(b) == { j \in b..Len(s) : s[j] = "," } \cup { Len(s) + 1 }
        stop(b) == CHOOSE e \in stops(b) : \A x \in stops(b) : e <= x
    IN  [k \in 1..Cardinality(starts) |-> SubSeq(s, start(k), stop(start(k)) - 1)]

\* the test of grch37_38_def_var_count_equal on one line
def_var_count_differs(line) ==
    Len(split(strip(line.GRCh37))) # Len(split(strip(line.GRCh38)))

\* Db.get_reference_allele: for the lines of the reference genotypes, the
\* defining variants of the column self.ref
get_reference_allele(table, ref) ==
    LET refs == SelectSeq(table, LAMBDA line : line.Reference_genotype = "Yes")
    IN  [i \in 1..Len(refs) |-> { split(refs[i][ref])[k] :
                                      k \in 1..Len(split(refs[i][ref])) }]

\* no Db has been constructed
NoDb == [made |-> "none", raised |-> "none", ref |-> "none", reference_alleles |-> << >>]

\* Db(ref, df): __post_init__ sets the fields derived from the table; its
\* call of grch37_38_def_var_count_equal is commented out
Db_post_init ==
    /\ db = NoDb
    /\ \E ref \in RefColumns :
          db' = [made |-> "Db", raised |-> "none", ref |-> ref,
                 reference_alleles |-> get_reference_allele(df, ref)]
    /\ UNCHANGED << gene, df, count_check, profiles >>

\* DbInternalConsistencyCheck.grch37_38_def_var_count_equal on the table
grch37_38_def_var_count_equal ==
    /\ count_check = "not called"
    /\ count_check' = IF \E i \in 1..Len(df) : def_var_count_differs(df[i])
                      THEN "VariantCountMismatchError"
                      ELSE "returned"
    /\ UNCHANGED << gene, df, db, profiles >>

\* no gene is looked at while the table is loaded
\* compare_antigen_profiles has not been given anything
no_profiles == numeric = << >> /\ alpha = << >> /\ compared = "not called"

InitDb ==
    /\ type = "KN"
    /\ variant_pool = << >>
    /\ variant_pool_phase = << >>
    /\ variant_pool_phase_set = << >>
    /\ co_none = TRUE
    /\ alleles = [s \in { RAW, FILT, NORMAL, CO } |-> << >>]
    /\ filtered_out = [k \in LedgerKeys |-> << >>]
    /\ err = "none"
    /\ pc = 2 * Len(FilterNames) + 1
    /\ last = [filter |-> "none", phased |-> FALSE]
    /\ added = << >>
    /\ pre = alleles
    /\ mid = alleles
    /\ df \in Tables
    /\ db = NoDb
    /\ count_check = "not called"
    /\ no_profiles

NextDb ==
    \/ Db_post_init
    \/ grch37_38_def_var_count_equal

\* a table is given to Db and to the count check
DbSpec == InitDb /\ [][NextDb]_vars

-----------------------------------------------------------------------------
(* db/db.py: the antigen profiles, their parsers and their comparison.      *)
(* A text is a sequence of one-character strings.                           *)

MaxTokens == 2  \* most tokens of an antigen profile

ValueError == "ValueError"

\* what a parser gives: the antigens it returns, or the exception it raises
Returns(antigens) == [raised |-> "none", antigens |-> antigens]

Raises(exception) == [raised |-> exception, antigens |-> << >>]

Digits == { "0", "1", "2", "3", "4", "5", "6", "7", "8", "9" }

LowerCase ==
    << "a", "b", "c", "d", "e", "f", "g", "h", "i", "j", "k", "l", "m",
       "n", "o", "p", "q", "r", "s", "t", "u", "v", "w", "x", "y", "z" >>

UpperCase ==
    << "A", "B", "C", "D", "E", "F", "G", "H", "I", "J", "K", "L", "M",
       "N", "O", "P", "Q", "R", "S", "T", "U", "V", "W", "X", "Y", "Z" >>

Letters == ToSet(LowerCase) \cup ToSet(UpperCase)

\* str.lower
lower(s) ==
    [i \in 1..Len(s) |->
        IF \E k \in 1..Len(UpperCase) : UpperCase[k] = s[i]
        THEN LowerCase[CHOOSE k \in 1..Len(UpperCase) : UpperCase[k] = s[i]]
        ELSE s[i]]

\* str.split(sep) for a separator of one character
split_on(s, sep) ==
    LET starts == { 1 } \cup { i + 1 : i \in { j \in 1..Len(s) : s[j] = sep } }
        start(k) == CHOOSE b \in starts : Cardinality({ x \in starts : x < b }) = k - 1
        stops(b) == { j \in b..Len(s) : s[j] = sep } \cup { Len(s) + 1 }
        stop(b) == CHOOSE e \in stops(b) : \A x \in stops(b) : e <= x
    IN  [k \in 1..Cardinality(starts) |-> SubSeq(s, start(k), stop(start(k)) - 1)]

\* the tokens of a profile: split at ",", stripped, the empty ones skipped
tokens_of(text) ==
    SelectSeq([k \in 1..Len(split_on(text, ",")) |-> strip(split_on(text, ",")[k])],
              LAMBDA tok : tok # << >>)

Antigen(system, name, expressed, modifiers) ==
    [system |-> system, name |-> name, expressed |-> expressed, modifiers |-> modifiers]

\* _NUMERIC_RE.fullmatch(tok): an optional "-", digits, then optional letters
numeric_body(tok) == IF tok # << >> /\ tok[1] = "-" THEN Tail(tok) ELSE tok

numeric_digits(tok) ==
    Cardinality({ i \in 1..Len(numeric_body(tok)) :
                    \A j \in 1..i : numeric_body(tok)[j] \in Digits })

NUMERIC_RE_fullmatch(tok) ==
    /\ numeric_digits(tok) >= 1
    /\ \A i \in (numeric_digits(tok) + 1)..Len(numeric_body(tok)) :
          numeric_body(tok)[i] \in Letters

\* text.partition(":")[2]
after_colon(text) ==
    IF \E i \in 1..Len(text) : text[i] = ":"
    THEN SubSeq(text, (CHOOSE i \in 1..Len(text) :
                          text[i] = ":" /\ \A j \in 1..(i - 1) : text[j] # ":") + 1,
                Len(text))
    ELSE << >>

\* NumericParser(system).parse(text): the antigens, or ValueError
NumericParser_parse(system, text) ==
    IF strip(text) \in { << >>, << "." >> }
    THEN Returns(<< >>)
    ELSE LET toks == tokens_of(after_colon(text))
         IN  IF \E i \in 1..Len(toks) : ~NUMERIC_RE_fullmatch(toks[i])
             THEN Raises(ValueError)
             ELSE Returns([i \in 1..Len(toks) |->
                     Antigen(system,
                             SubSeq(numeric_body(toks[i]), 1, numeric_digits(toks[i])),
                             toks[i][1] # "-",
                             ToSet(SubSeq(numeric_body(toks[i]),
                                          numeric_digits(toks[i]) + 1,
                                          Len(numeric_body(toks[i])))))])

\* _ALPHA_MOD
ALPHA_MOD ==
    { [word |-> << "w", "e", "a", "k" >>, code |-> "w"],
      [word |-> << "v", "e", "r", "y", "_", "w", "e", "a", "k" >>, code |-> "v"],
      [word |-> << "p", "a", "r", "t", "i", "a", "l" >>, code |-> "p"],
      [word |-> << "n", "e", "g" >>, code |-> "n"],
      [word |-> << "n", "e", "g", "a", "t", "i", "v", "e" >>, code |-> "n"],
      [word |-> << "m", "o", "n", "o", "c", "l", "o", "n", "a", "l" >>, code |-> "m"],
      [word |-> << "i", "n", "f", "e", "r", "r", "e", "d" >>, code |-> "i"],
      [word |-> << "r", "o", "b", "u", "s", "t" >>, code |-> "r"],
      [word |-> << "s", "t", "r", "o", "n", "g" >>, code |-> "s"],
      [word |-> << "p", "o", "s", "i", "t", "i", "v", "e", "_", "t", "o", "_", "n", "e", "g" >>,
       code |-> "n"],
      [word |-> << "w", "e", "a", "k", "_", "t", "o", "_", "n", "e", "g" >>, code |-> "n"],
      [word |-> << "v", "e", "r", "y", "_", "w", "e", "a", "k", "_", "t", "o", "_", "n", "e", "g" >>,
       code |-> "n"] }

\* _ALPHA_MOD.get(comp), as the set of the codes found (empty or one code)
ALPHA_MOD_get(comp) == { e.code : e \in { f \in ALPHA_MOD : f.word = comp } }

\* _MOD_LETTERS
MOD_LETTERS == { e.code : e \in ALPHA_MOD }

\* the modifier codes one component of the tail adds
component_mods(comp) ==
    LET parts == split_on(comp, "_")
        of_parts == UNION { ALPHA_MOD_get(parts[i]) : i \in 1..Len(parts) }
    IN  IF ALPHA_MOD_get(comp) # { }
        THEN ALPHA_MOD_get(comp)
        ELSE IF (\E i \in 1..Len(comp) : comp[i] = "_") /\ of_parts # { }
        THEN of_parts
        ELSE IF ToSet(comp) \subseteq MOD_LETTERS
        THEN ToSet(comp)
        ELSE { }

\* the position of the first "+" or "-" of the token, 0 if it has none
sign_index(tok) ==
    IF \E i \in 1..Len(tok) : tok[i] \in { "+", "-" }
    THEN CHOOSE i \in 1..Len(tok) :
            tok[i] \in { "+", "-" } /\ \A j \in 1..(i - 1) : tok[j] \notin { "+", "-" }
    ELSE 0

\* str.rstrip(" (")
rstrip_paren(s) ==
    LET kept == { i \in 1..Len(s) : s[i] \notin { " ", "(" } }
    IN  IF kept = { }
        THEN << >>
        ELSE SubSeq(s, 1, CHOOSE i \in kept : \A j \in kept : i >= j)

count_of(s, ch) == Cardinality({ i \in 1..Len(s) : s[i] = ch })

\* the antigen of one token that has a sign
alpha_antigen(system, tok) ==
    LET idx == sign_index(tok)
        name_part_before_rstrip == SubSeq(tok, 1, idx - 1)
        raw_tail == lower(SubSeq(tok, idx + 1, Len(tok)))
        tail == IF /\ raw_tail # << >>
                   /\ raw_tail[Len(raw_tail)] = ")"
                   /\ count_of(name_part_before_rstrip, "(")
                        > count_of(name_part_before_rstrip, ")")
                THEN SubSeq(raw_tail, 1, Len(raw_tail) - 1)
                ELSE raw_tail
        components == SelectSeq(split_on(strip(tail), " "), LAMBDA comp : comp # << >>)
    IN  Antigen(system, rstrip_paren(name_part_before_rstrip), tok[idx] = "+",
                UNION { component_mods(components[i]) : i \in 1..Len(components) })

\* AlphaParser(system).parse(text): the antigens, or ValueError
AlphaParser_parse(system, text) ==
    IF strip(text) \in { << >>, << "." >> }
    THEN Returns(<< >>)
    ELSE LET toks == tokens_of(text)
         IN  IF \E i \in 1..Len(toks) : sign_index(toks[i]) = 0
             THEN Raises(ValueError)
             ELSE Returns([i \in 1..Len(toks) |-> alpha_antigen(system, toks[i])])

\* mapping["RH"], the part of it the profiles below use
sys_map == [num \in { << "2" >>, << "3" >> } |->
               IF num = << "2" >> THEN << "C" >> ELSE << "E" >>]

\* compare_antigen_profiles(numeric, alpha, mapping, "RH", strict=strict):
\* "True", "False" or "ValueError"
profiles_equivalent(num_text, alpha_text, strict) ==
    LET num_ants == NumericParser_parse("RH", num_text).antigens
        alpha_ants == AlphaParser_parse("RH", alpha_text).antigens
    IN  IF \/ NumericParser_parse("RH", num_text).raised # "none"
           \/ AlphaParser_parse("RH", alpha_text).raised # "none"
        THEN ValueError
        ELSE IF \E i \in 1..Len(num_ants) : num_ants[i].name \notin DOMAIN sys_map
        THEN ValueError
        ELSE LET names == { sys_map[num_ants[i].name] : i \in 1..Len(num_ants) }
                 num_by_name ==
                     [name \in names |->
                         num_ants[CHOOSE i \in 1..Len(num_ants) :
                                     /\ sys_map[num_ants[i].name] = name
                                     /\ \A j \in (i + 1)..Len(num_ants) :
                                           sys_map[num_ants[j].name] # name]]
                 seen == { alpha_ants[i].name : i \in 1..Len(alpha_ants) } \cap names
                 differs(a) ==
                     IF a.name \notin names
                     THEN strict
                     ELSE \/ a.expressed # num_by_name[a.name].expressed
                          \/ a.modifiers # num_by_name[a.name].modifiers
             IN  IF \E i \in 1..Len(alpha_ants) : differs(alpha_ants[i])
                 THEN "False"
                 ELSE IF strict /\ seen # names THEN "False" ELSE "True"

\* the tokens the profiles are made of
NumericTokens ==
    { << "2" >>, << "-", "2" >>, << "3" >>, << "-", "3" >>, << "2", "w" >>, << "9" >> }

AlphaTokens ==
    { << "C", "+" >>, << "C", "-" >>, << "C" >>, << "E", "+" >>, << "E", "-" >>,
      << "E" >>, << "C", "+", "w" >> }

\* the tokens of a list joined with ","
RECURSIVE join(_)
join(toks) ==
    IF Len(toks) = 0 THEN << >>
    ELSE IF Len(toks) = 1 THEN toks[1]
    ELSE toks[1] \o << "," >> \o join(Tail(toks))

TokenLists(tokens) == UNION { [1..n -> tokens] : n \in 0..MaxTokens }

NumericProfiles ==
    { << "R", "H", ":" >> \o join(toks) : toks \in TokenLists(NumericTokens) }

AlphaProfiles == { join(toks) : toks \in TokenLists(AlphaTokens) }

\* one call of compare_antigen_profiles on the two profiles
compare_antigen_profiles ==
    /\ compared = "not called"
    /\ \E strict \in BOOLEAN :
          compared' = profiles_equivalent(numeric, alpha, strict)
    /\ UNCHANGED << gene, df, db, count_check, numeric, alpha >>

InitProfiles ==
    /\ type = "KN"
    /\ variant_pool = << >>
    /\ variant_pool_phase = << >>
    /\ variant_pool_phase_set = << >>
    /\ co_none = TRUE
    /\ alleles = [s \in { RAW, FILT, NORMAL, CO } |-> << >>]
    /\ filtered_out = [k \in LedgerKeys |-> << >>]
    /\ err = "none"
    /\ pc = 2 * Len(FilterNames) + 1
    /\ last = [filter |-> "none", phased |-> FALSE]
    /\ added = << >>
    /\ pre = alleles
    /\ mid = alleles
    /\ df = << >>
    /\ db = NoDb
    /\ count_check = "not called"
    /\ numeric \in NumericProfiles
    /\ alpha \in AlphaProfiles
    /\ compared = "not called"

NextProfiles == compare_antigen_profiles

\* two profiles are given to compare_antigen_profiles
Profiles == InitProfiles /\ [][NextProfiles]_vars

-----------------------------------------------------------------------------
(* The calls.  pc = 0: one call of any filter with any phased argument is   *)
(* made on the input state (pc becomes Returned).  pc = k in 1..12: the     *)
(* pipeline is about to run filter k of its first run with phased = True;   *)
(* pc = 12 + k: filter k of its second run; pc = Done: both runs are over;  *)
(* a filter that raises leaves err set and the gene is given up.            *)

NumFilters == Len(FilterNames)
Done == 2 * NumFilters + 1
Returned == Done + 1

\* filter k is called with the argument phased and has the outcome out
Call(k, phased, out) ==
    /\ err = "none"
    /\ \/ pc = 0
       \/ phased /\ pc \in { k, NumFilters + k }
    /\ alleles' = out.alleles
    /\ filtered_out' = out.filtered_out
    /\ added' = out.added
    /\ err' = out.err
    /\ last' = [filter |-> FilterNames[k], phased |-> phased]
    /\ pc' = IF pc = 0 THEN Returned
             ELSE IF out.err # "none" THEN pc
             ELSE pc + 1
    /\ mid' = IF pc = NumFilters THEN out.alleles ELSE mid
    /\ UNCHANGED << evidence, co_none, pre, df, db, count_check, profiles >>

Filter1 == \E phased \in BOOLEAN : Call(1, phased, remove_unphased(bg, phased))

Filter2 ==
    \E phased \in BOOLEAN :
        Call(2, phased, filter_if_all_HET_vars_on_same_side_and_phased(bg, phased))

Filter3 ==
    \E phased \in BOOLEAN :
        Call(3, phased,
             filter_on_in_relationship_if_HET_vars_on_dif_side_and_phased(bg, phased))

Filter4 ==
    \E phased \in BOOLEAN :
        Call(4, phased,
             filter_on_in_relationship_when_HOM_cant_be_on_one_side(bg, phased))

Filter5 ==
    \E phased \in BOOLEAN :
        Call(5, phased, filter_on_in_relationship_if_all_HOM_and_phased(bg, phased))

Filter6 == \E phased \in BOOLEAN : Call(6, phased, filter_pairs_by_phase(bg, phased))

Filter7 == \E phased \in BOOLEAN : Call(7, phased, impossible_alleles_phased(bg, phased))

Filter8 == \E phased \in BOOLEAN : Call(8, phased, rm_ref_if_2x_HET_phased(bg, phased))

Filter9 == \E phased \in BOOLEAN : Call(9, phased, low_weight_hom(bg, phased))

Filter10 == \E phased \in BOOLEAN : Call(10, phased, no_defining_variant(bg, phased))

Filter11 == \E phased \in BOOLEAN : Call(11, phased, ref_not_phased(bg, phased))

Filter12 ==
    \E phased \in BOOLEAN : Call(12, phased, cant_be_hom_ref_due_to_HET_SNP(bg, phased))

Next ==
    \/ Filter1
    \/ Filter2
    \/ Filter3
    \/ Filter4
    \/ Filter5
    \/ Filter6
    \/ Filter7
    \/ Filter8
    \/ Filter9
    \/ Filter10
    \/ Filter11
    \/ Filter12

\* one call of one filter on an input gene state
Init ==
    /\ InitGene /\ pc = 0 /\ df = << >> /\ db = NoDb /\ count_check = "not called"
    /\ no_profiles

Spec == Init /\ [][Next]_vars

\* the twelve filters in order with phased = True, twice
InitPipeline ==
    /\ InitGene /\ pc = 1 /\ df = << >> /\ db = NoDb /\ count_check = "not called"
    /\ no_profiles

Pipeline == InitPipeline /\ [][Next]_vars

\* one call of filter 9 on a gene state of up to MaxWeighed pairs
NextWeighing == Filter9

\* one call of filter 10 on an ABO gene state of a GRCh37 run
NextGRCh37 == Filter10

InitFilter10 ==
    /\ InitGRCh37 /\ pc = 0 /\ df = << >> /\ db = NoDb /\ count_check = "not called"
    /\ no_profiles

GRCh37 == InitFilter10 /\ [][NextGRCh37]_vars

InitFilter9 ==
    /\ InitWeighing /\ pc = 0 /\ df = << >> /\ db = NoDb /\ count_check = "not called"
    /\ no_profiles

Weighing == InitFilter9 /\ [][NextWeighing]_vars


-----------------------------------------------------------------------------
(* Properties *)

\* the call of the filter has returned, it was made with phased = True
Returned_from(filter_name) ==
    /\ pc = Returned
    /\ last.filter = filter_name
    /\ last.phased
    /\ err = "none"

\* the pipeline is at some point of its first or second run
InPipeline == pc >= 1 /\ pc <= Done

\* the first run of the pipeline is over
FirstRunOver == pc > NumFilters /\ pc <= Done

\* C1: a call of any filter with phased = False leaves the RAW, FILT, NORMAL
\* and CO collections, the evidence maps and the removal ledger unchanged.
C1_UnphasedCallChangesNothing ==
    [][last'.phased = FALSE =>
          /\ alleles' = alleles
          /\ co_none' = co_none
          /\ filtered_out' = filtered_out
          /\ evidence' = evidence]_vars

\* a call with phased = False has returned on a state in which the same call
\* with phased = True removes an allele or a pair
C1_Witness ==
    /\ pc = Returned
    /\ ~last.phased
    /\ \/ /\ last.filter = "remove_unphased"
          /\ identify_unphased(alleles[FILT]) # << >>
       \/ /\ last.filter = "filter_pairs_by_phase"
          /\ \E i \in 1..Len(alleles[NORMAL]) : in_same_phase(alleles[NORMAL][i])

InCandidateSet(key, item) ==
    IF key = "remove_unphased"
    THEN InList(item, pre[FILT])
    ELSE InPairs(item, pre[NORMAL]) \/ InPairs(item, pre[CO])

removed_by_phase == filtered_out["filter_pairs_by_phase"]

kept_by_phase == SelectSeq(pre[NORMAL], LAMBDA p : ~InPairs(p, removed_by_phase))

inserted_by_phase ==
    SubSeq(alleles[NORMAL], Len(kept_by_phase) + 1, Len(alleles[NORMAL]))

\* for each removed pair exactly (reference, allele1) and (reference, allele2)
TwoReferencePairsEach ==
    /\ Len(inserted_by_phase) = 2 * Len(removed_by_phase)
    /\ \A i \in 1..Len(removed_by_phase) :
          /\ inserted_by_phase[2 * i - 1]
                = Pair(reference_alleles, removed_by_phase[i].allele1)
          /\ inserted_by_phase[2 * i]
                = Pair(reference_alleles, removed_by_phase[i].allele2)

\* C5 as claimed: when filter 6 removes all pairs of NORMAL that do not contain
\* the reference, it inserts for each removed pair the two reference pairs,
\* also when NORMAL holds reference-containing pairs that are kept.
C5_FallbackWhenRefFreeRemoved ==
    /\ Returned_from("filter_pairs_by_phase")
    /\ removed_by_phase # << >>
    /\ \A i \in 1..Len(pre[NORMAL]) :
          ~contains_reference(pre[NORMAL][i]) => InPairs(pre[NORMAL][i], removed_by_phase)
    => TwoReferencePairsEach

\* C5 as amended: when filter 6 removes every pair of NORMAL it inserts for
\* each removed pair exactly (reference, allele1) and (reference, allele2);
\* when some pair is kept it inserts nothing.
C5_FallbackWhenAllRemoved ==
    Returned_from("filter_pairs_by_phase") /\ removed_by_phase # << >> =>
        IF Len(removed_by_phase) = Len(pre[NORMAL])
        THEN TwoReferencePairsEach
        ELSE inserted_by_phase = << >> /\ alleles[NORMAL] = kept_by_phase

\* filter 6 has removed both pairs of a NORMAL list of two
C5_Witness ==
    /\ Returned_from("filter_pairs_by_phase")
    /\ Len(pre[NORMAL]) = 2
    /\ Len(removed_by_phase) = 2

\* C6: filter 6 called with phased = True on a non-empty NORMAL list returns
\* with NORMAL non-empty.
C6_FilterSixNeverEmpties ==
    Returned_from("filter_pairs_by_phase") /\ pre[NORMAL] # << >> =>
        alleles[NORMAL] # << >>

\* filter 6 has removed the only pair of NORMAL
C6_Witness ==
    /\ Returned_from("filter_pairs_by_phase")
    /\ Len(pre[NORMAL]) = 1
    /\ Len(removed_by_phase) = 1
    /\ alleles[NORMAL] # << >>

\* C7: the same-side test of filter 2 and the same-phase test of filter 6 give
\* the same answer for the pair (a, b) and for the pair (b, a).
C7_PhaseSymmetry ==
    LET in_pool(a) == a.reference \/ a.defining_variants \subseteq DOMAIN variant_pool
    IN  /\ Returned_from("filter_if_all_HET_vars_on_same_side_and_phased") =>
              \A a \in AlleleSet : \A b \in AlleleSet :
                  in_pool(a) /\ in_pool(b) =>
                      (het_vars_on_same_side(a, b) <=> het_vars_on_same_side(b, a))
        /\ Returned_from("filter_pairs_by_phase") =>
              \A a \in AlleleSet : \A b \in AlleleSet :
                  in_pool(a) /\ in_pool(b) =>
                      (in_same_phase(Pair(a, b)) <=> in_same_phase(Pair(b, a)))

\* filter 2 has removed a pair of two different alleles, and filter 6 would
\* remove a pair of two different alleles
C7_Witness ==
    /\ Returned_from("filter_if_all_HET_vars_on_same_side_and_phased")
    /\ \E i \in 1..Len(filtered_out["filter_if_all_HET_vars_on_same_side_and_phased"]) :
          LET p == filtered_out["filter_if_all_HET_vars_on_same_side_and_phased"][i]
          IN  p.allele1 # p.allele2 /\ het_vars_on_same_side(p.allele2, p.allele1)
    /\ in_same_phase(Pair(Y, X))

\* allele1 has a HET variant and allele2 has a HET variant with the same
\* ordered phase in the same phase-set
SameOrderedPhaseInOnePhaseSet(pair) ==
    \E v \in pair.allele1.defining_variants : \E w \in pair.allele2.defining_variants :
        /\ Get(variant_pool, v) = HET
        /\ Get(variant_pool, w) = HET
        /\ variant_pool_phase[v] \in { "1|0", "0|1" }
        /\ variant_pool_phase[v] = variant_pool_phase[w]
        /\ variant_pool_phase_set[v] = variant_pool_phase_set[w]

C9_RemovedOnlyIfAllOnSameSide ==
    Returned_from("filter_if_all_HET_vars_on_same_side_and_phased") =>
        \A i \in 1..Len(filtered_out["filter_if_all_HET_vars_on_same_side_and_phased"]) :
            LET p == filtered_out["filter_if_all_HET_vars_on_same_side_and_phased"][i]
            IN  \A v \in p.allele1.defining_variants : \A w \in p.allele2.defining_variants :
                    Get(variant_pool, v) = HET /\ Get(variant_pool, w) = HET =>
                        /\ variant_pool_phase[v] = variant_pool_phase[w]
                        /\ variant_pool_phase[v] \in { "1|0", "0|1" }

\* C10: in a state of at least two pairs, filter 5 removes a pair (h, h) of
\* two identical alleles whose variants are all HOM if some allele of the
\* pairs has h's defining variants as a proper subset of its own.
C10_RedundantHomPairRemoved ==
    Returned_from("filter_on_in_relationship_if_all_HOM_and_phased")
    /\ Len(pre[NORMAL]) >= 2 =>
        \A i \in 1..Len(pre[NORMAL]) :
            LET p == pre[NORMAL][i]
            IN  /\ p.allele1 = p.allele2
                /\ all_hom(p.allele1)
                /\ \E z \in flatten_alleles(pre[NORMAL]) :
                      /\ p.allele1.defining_variants \subseteq z.defining_variants
                      /\ p.allele1.defining_variants # z.defining_variants
                => /\ ~InPairs(p, alleles[NORMAL])
                   /\ InPairs(p, filtered_out["filter_on_in_relationship_if_all_HOM_and_phased"])

\* filter 5 has removed (H, H) from a state that holds the larger allele A
C10_Witness ==
    /\ Returned_from("filter_on_in_relationship_if_all_HOM_and_phased")
    /\ InPairs(Pair(H, H), pre[NORMAL])
    /\ A \in flatten_alleles(pre[NORMAL])
    /\ all_hom(H)
    /\ ~InPairs(Pair(H, H), alleles[NORMAL])

\* the NORMAL pairs that filters 8 and 9 take as phase resolved
eligible_pairs(pairs) == SelectSeq(pairs, possible_to_use_phase)

ABO_exceptions == { "9:133257521_T_TC", "136132908_T_TC" }

\* a reference allele of the pair has a defining variant that is neither in
\* the zygosity map nor one of the two exceptions
reference_variant_absent(pair) ==
    \E allele \in PairAlleles(pair) :
        /\ allele.reference
        /\ \E variant \in allele.defining_variants :
              variant \notin DOMAIN variant_pool /\ variant \notin ABO_exceptions

\* as above, for a reference allele that has a defining variant whose name
\* does not end with "."
named_reference_variant_absent(pair) ==
    \E allele \in PairAlleles(pair) :
        /\ allele.reference
        /\ \E variant \in allele.defining_variants : ~ends_with_dot(variant)
        /\ \E variant \in allele.defining_variants :
              variant \notin DOMAIN variant_pool /\ variant \notin ABO_exceptions

\* C12 as claimed: filter 10 removes every NORMAL pair with a reference allele
\* that has a defining variant absent from the zygosity map (the two ABO
\* exceptions apart), and no pair whose reference alleles have all their
\* defining variants in the map.
C12_AbsentReferenceVariantRemoved ==
    Returned_from("no_defining_variant") =>
        \A i \in 1..Len(pre[NORMAL]) :
            LET pair == pre[NORMAL][i]
            IN  /\ reference_variant_absent(pair) => ~InPairs(pair, alleles[NORMAL])
                /\ (\A allele \in PairAlleles(pair) :
                        allele.reference =>
                            allele.defining_variants \subseteq DOMAIN variant_pool)
                   => InPairs(pair, alleles[NORMAL])

\* C12 as amended: filter 10 removes a NORMAL pair iff one of its reference
\* alleles has a defining variant that is absent from the zygosity map and is
\* not one of the two exceptions, unless all defining variants of that allele
\* end with "."; every removed pair is recorded under "no_defining_variant".
C12_AbsentNamedReferenceVariantRemoved ==
    Returned_from("no_defining_variant") =>
        \A i \in 1..Len(pre[NORMAL]) :
            LET pair == pre[NORMAL][i]
            IN  IF named_reference_variant_absent(pair)
                THEN /\ ~InPairs(pair, alleles[NORMAL])
                     /\ InPairs(pair, filtered_out["no_defining_variant"])
                ELSE /\ InPairs(pair, alleles[NORMAL])
                     /\ ~InPairs(pair, filtered_out["no_defining_variant"])

\* filter 10 has removed a pair with the reference and kept another pair
C12_Witness ==
    /\ Returned_from("no_defining_variant")
    /\ filtered_out["no_defining_variant"] # << >>
    /\ alleles[NORMAL] # << >>

\* C13: for a gene whose type is not "KN" no filter call changes the CO
\* collection, whatever it contains.
C13_COUntouchedUnlessKN ==
    [][type # "KN" => alleles'[CO] = alleles[CO] /\ co_none' = co_none]_vars

\* both runs of the pipeline are over for a gene that is not KN and has CO
\* pairs; a filter that looks at CO for KN has removed pairs from NORMAL
C13_Witness ==
    /\ pc = Done
    /\ type # "KN"
    /\ ~co_none
    /\ alleles[CO] # << >>
    /\ filtered_out["filter_if_all_HET_vars_on_same_side_and_phased"] # << >>
    /\ \E i \in 1..Len(alleles[CO]) : ~InPairs(alleles[CO][i], alleles[NORMAL])

\* a call of the filter has returned for the gene KN with CO candidates
Returned_for_KN(filter_name) ==
    Returned_from(filter_name) /\ type = "KN" /\ ~co_none

\* the CO pairs that the call has taken out of NORMAL are out of CO as well
RemovedFromCOAsFromNormal ==
    \A i \in 1..Len(pre[CO]) :
        ~InPairs(pre[CO][i], alleles[NORMAL]) => ~InPairs(pre[CO][i], alleles[CO])

\* C14 as claimed: for the gene KN with CO candidates, each of the filters 2
\* to 12 removes from CO the pairs that satisfy the rule by which it removes
\* them from NORMAL.
C14_EveryPairFilterPrunesCO ==
    \A k \in 2..NumFilters :
        Returned_for_KN(FilterNames[k]) => RemovedFromCOAsFromNormal

\* C14 as amended: filters 2, 3, 4, 5 and 7 remove from CO the pairs they
\* remove from NORMAL; filters 6, 8, 9, 10, 11 and 12 leave CO as it was.
C14_OnlyFiltersWithStateLoopPruneCO ==
    /\ \A k \in { 2, 3, 4, 5, 7 } :
          Returned_for_KN(FilterNames[k]) => RemovedFromCOAsFromNormal
    /\ \A k \in { 6, 8, 9, 10, 11, 12 } :
          Returned_for_KN(FilterNames[k]) => alleles[CO] = pre[CO]

\* filter 2 has removed a pair from NORMAL and from CO of a KN gene and has
\* kept another
C14_Witness ==
    /\ Returned_for_KN("filter_if_all_HET_vars_on_same_side_and_phased")
    /\ Len(alleles[CO]) < Len(pre[CO])
    /\ alleles[CO] # << >>
    /\ alleles[CO] = alleles[NORMAL]

-----------------------------------------------------------------------------
(* C15: the filters without a fallback and the emptied NORMAL state *)

\* the filters 2, 3, 4, 5, 9, 10, 11 and 12
filters_without_fallback == { 2, 3, 4, 5, 9, 10, 11, 12 }

\* the filter called returned normally and left NORMAL empty although the
\* state held pairs on entry
emptied_by(filter_name) ==
    /\ Returned_from(filter_name)
    /\ pre[NORMAL] # << >>
    /\ alleles[NORMAL] = << >>

\* C15 as stated: none of the filters 2, 3, 4, 5, 9, 10, 11, 12 returns
\* normally with NORMAL empty when NORMAL held pairs on entry
C15_NoFilterReturnsWithStateEmptied ==
    \A k \in filters_without_fallback : ~emptied_by(FilterNames[k])

\* C15: a phased call of filter 2, 3, 4, 5, 10, 11 or 12 always returns
\* normally, also when it removes every pair of NORMAL, and every pair it
\* removed is in its ledger entry; the only failure of filter 9 is its
\* assertion on two alleles of one phase; filters 3 and 9 do not return
\* with NORMAL emptied
C15_FiltersReturnNormallyAlsoWhenEmptying ==
    /\ \A k \in filters_without_fallback \ { 9 } :
          pc = Returned /\ last.filter = FilterNames[k] /\ last.phased
              => /\ err = "none"
                 /\ \A i \in 1..Len(pre[NORMAL]) :
                       \/ InPairs(pre[NORMAL][i], alleles[NORMAL])
                       \/ InPairs(pre[NORMAL][i], filtered_out[FilterNames[k]])
    /\ pc = Returned /\ last.filter = FilterNames[9]
          => err \in { "none", "AssertionError" }
    /\ \A k \in { 3, 9 } : ~emptied_by(FilterNames[k])

\* filter 12 has returned normally after removing the only pair of NORMAL
C15_Witness ==
    /\ emptied_by(FilterNames[12])
    /\ Len(filtered_out[FilterNames[12]]) = Len(pre[NORMAL])

-----------------------------------------------------------------------------
(* C16: the assertions of filter 7 after filters 1 to 6 *)

\* C16: on every gene state produced by running filters 1 to 6 in order,
\* filter 7 does not fail an assertion: the pairs it marks are never all the
\* pairs of the state and the state is non-empty after it
C16_FilterSevenAssertionsHold ==
    pc \in { 7, NumFilters + 7 } /\ last.filter = FilterNames[7]
        => err # "AssertionError"

-----------------------------------------------------------------------------
(* C17: check_phase *)

\* the variants of the allele that the map holds with a value other than
\* the excluded one
qualifying_variants(pool, allele, excluding_value) ==
    { variant \in allele.defining_variants \cap DOMAIN pool :
        pool[variant] # excluding_value }

\* the qualifying variants share exactly one value
share_one_value(pool, allele, excluding_value) ==
    /\ qualifying_variants(pool, allele, excluding_value) # { }
    /\ \A v, w \in qualifying_variants(pool, allele, excluding_value) :
          pool[v] = pool[w]

\* the two calls filter 7 makes for an allele of the state it was given
check_phase_calls ==
    { << variant_pool_phase_set, allele, "." >> : allele \in flatten_alleles(pre[NORMAL]) }
        \cup { << variant_pool_phase, allele, "1/1" >> :
                    allele \in flatten_alleles(pre[NORMAL]) }

\* filter 7 has been called phased on a state of two pairs or more
filter_7_checked_phases ==
    /\ pc = Returned
    /\ last.filter = FilterNames[7]
    /\ last.phased
    /\ Len(pre[NORMAL]) >= 2

-----------------------------------------------------------------------------
(* C18: filter 1 *)

\* the allele has two distinct HET defining variants of one phase set and
\* of different phases
spans_both_copies(allele) ==
    \E v, w \in allele.defining_variants :
        /\ v # w
        /\ Get(variant_pool, v) = HET
        /\ Get(variant_pool, w) = HET
        /\ variant_pool_phase_set[v] = variant_pool_phase_set[w]
        /\ variant_pool_phase[v] # variant_pool_phase[w]

\* the number of times x is in the list s
occurrences(x, s) == Cardinality({ i \in 1..Len(s) : s[i] = x })

-----------------------------------------------------------------------------
(* C19: filter 11 and the ledger entry of filter 1 *)

\* one of the alleles of the pair is a reference allele recorded under
\* "remove_unphased"
holds_unphased_reference(pair) ==
    \E allele \in { pair.allele1, pair.allele2 } :
        /\ allele.reference
        /\ InList(allele, filtered_out["remove_unphased"])

\* filter 1 found the allele in FILT with two HET variants of one phase set
\* and different phases
flagged_by_filter_1(allele) ==
    /\ InList(allele, pre[FILT])
    /\ \E v, w \in allele.defining_variants :
          /\ v # w
          /\ Get(variant_pool, v) = HET
          /\ Get(variant_pool, w) = HET
          /\ variant_pool_phase_set[v] = variant_pool_phase_set[w]
          /\ variant_pool_phase[v] # variant_pool_phase[w]

\* the ledger entry "remove_unphased" changes in steps of filter 1 only
written_by_filter_1_only ==
    filtered_out'["remove_unphased"] # filtered_out["remove_unphased"]
        => /\ last'.filter = "remove_unphased"
           /\ pc \in { 1, NumFilters + 1 }

\* what a step of filter 11 does to NORMAL
step_of_filter_11 ==
    pc \in { 11, NumFilters + 11 } /\ last'.filter = "ref_not_phased"
        => /\ err' = "none"
           /\ \A i \in 1..Len(alleles[NORMAL]) :
                 ~InPairs(alleles[NORMAL][i], alleles'[NORMAL])
                     <=> holds_unphased_reference(alleles[NORMAL][i])
           /\ \A i \in 1..Len(alleles[NORMAL]) :
                 holds_unphased_reference(alleles[NORMAL][i])
                     => /\ InPairs(alleles[NORMAL][i], filtered_out'["ref_not_phased"])
                        /\ \E allele \in PairAlleles(alleles[NORMAL][i]) :
                              allele.reference /\ flagged_by_filter_1(allele)
           /\ \A i \in 1..Len(alleles'[NORMAL]) :
                 /\ InPairs(alleles'[NORMAL][i], alleles[NORMAL])
                 /\ ~holds_unphased_reference(alleles'[NORMAL][i])

\* C19: in a run of the pipeline, a step of filter 11 removes a pair of
\* NORMAL iff one of its alleles is a reference allele in the ledger entry
\* "remove_unphased"; that entry is written by filter 1 only, so a removed
\* pair holds a reference allele that filter 1 flagged earlier in the run;
\* after the step no pair of NORMAL holds such an allele
C19_RefNotPhasedFollowsFilterOne ==
    [][written_by_filter_1_only /\ step_of_filter_11]_vars

\* filter 1 has flagged the reference allele and nine filters later filter 11
\* has removed the pair that holds it
C19_Witness ==
    /\ InPipeline
    /\ pc = 12
    /\ last.filter = "ref_not_phased"
    /\ \E i \in 1..Len(filtered_out["ref_not_phased"]) :
          /\ InPairs(filtered_out["ref_not_phased"][i], pre[NORMAL])
          /\ ~InPairs(filtered_out["ref_not_phased"][i], alleles[NORMAL])
          /\ \E allele \in PairAlleles(filtered_out["ref_not_phased"][i]) :
                /\ allele.reference
                /\ InList(allele, filtered_out["remove_unphased"])
                /\ ~InList(allele, alleles[FILT])

-----------------------------------------------------------------------------
(* C20: Db over a table with unequal variant counts *)

\* the number of comma-separated items of a cell
variant_count(cell) == Cardinality({ i \in 1..Len(cell) : cell[i] = "," }) + 1

\* some line of the table has more variants in one build than in the other
unequal_counts(table) ==
    \E i \in 1..Len(table) :
        variant_count(table[i].GRCh37) # variant_count(table[i].GRCh38)

\* C20: constructing Db over a table in which some line has a different
\* number of comma-separated GRCh37 variants than GRCh38 variants raises
\* VariantCountMismatchError, and over a table of equal counts it succeeds
C20_DbRefusesUnequalCounts ==
    db # NoDb =>
        IF unequal_counts(df)
        THEN db.raised = "VariantCountMismatchError"
        ELSE db.made = "Db" /\ db.raised = "none"

-----------------------------------------------------------------------------
(* C22: filter 2 and variants of different phase sets *)

\* no HET variant of allele1 is in the phase set of a HET variant of allele2
no_shared_phase_set(pair) ==
    \A v \in pair.allele1.defining_variants : \A w \in pair.allele2.defining_variants :
        Get(variant_pool, v) = HET /\ Get(variant_pool, w) = HET =>
            variant_pool_phase_set[v] # variant_pool_phase_set[w]

\* C22: filter 2 keeps every pair of NORMAL in which no HET variant of
\* allele1 shares a phase set with a HET variant of allele2, also when their
\* ordered phase strings are equal
C22_DifferentPhaseSetsPairSurvives ==
    Returned_from("filter_if_all_HET_vars_on_same_side_and_phased") =>
        \A i \in 1..Len(pre[NORMAL]) :
            no_shared_phase_set(pre[NORMAL][i]) =>
                InPairs(pre[NORMAL][i], alleles[NORMAL])

-----------------------------------------------------------------------------
(* C23: filter 6 and unordered phase *)

\* the HET defining variants of the two alleles of the pair
het_variants(pair) ==
    { v \in pair.allele1.defining_variants \cup pair.allele2.defining_variants :
        Get(variant_pool, v) = HET }

\* the pair is free of the reference and its HET variants all carry an
\* unordered phase, or all carry the phase set "."
without_ordered_phase(pair) ==
    /\ ~contains_reference(pair)
    /\ \/ \A v \in het_variants(pair) : variant_pool_phase[v] \in { "0/1", "1/0" }
       \/ \A v \in het_variants(pair) : variant_pool_phase_set[v] = "."

\* C23: filter 6 keeps every reference-free pair of NORMAL whose HET variants
\* all carry an unordered phase or all carry the phase set ".", and inserts
\* no reference-paired pair on account of it
C23_UnorderedPhaseIsNoEvidence ==
    Returned_from("filter_pairs_by_phase") =>
        /\ \A i \in 1..Len(pre[NORMAL]) :
              without_ordered_phase(pre[NORMAL][i]) =>
                  InPairs(pre[NORMAL][i], alleles[NORMAL])
        /\ (\A i \in 1..Len(pre[NORMAL]) : without_ordered_phase(pre[NORMAL][i]))
              => added = << >>

-----------------------------------------------------------------------------
(* C24: filter 5 and the larger allele *)

\* the pairs of the state hold an allele other than h with strictly more
\* defining variants that has all of h's
larger_allele_in(h, pairs) ==
    \E allele \in flatten_alleles(pairs) :
        /\ allele # h
        /\ h.defining_variants \subseteq allele.defining_variants
        /\ Cardinality(allele.defining_variants) > Cardinality(h.defining_variants)

-----------------------------------------------------------------------------
(* C25: filter 9 and the pairs that do not compete *)

-----------------------------------------------------------------------------
(* C29: filter 9 and the order of NORMAL *)

\* the orders in which the pairs of a list can be stored
orderings(s) ==
    { [i \in 1..Len(s) |-> s[f[i]]] :
        f \in { g \in [1..Len(s) -> 1..Len(s)] :
                  \A i, j \in 1..Len(s) : g[i] = g[j] => i = j } }

\* the gene state filter 9 was given, its NORMAL list stored in another order
given_in_order(pairs) ==
    [alleles |-> [pre EXCEPT ![NORMAL] = pairs], co_none |-> co_none,
     filtered_out |-> [k \in LedgerKeys |-> << >>], err |-> "none",
     added |-> << >>]

\* C29: the set of pairs that survive filter 9 is the same for every order
\* in which the pairs of NORMAL are stored, also when two eligible pairs
\* tie for the minimum weight
C29_SurvivorsIndependentOfOrder ==
    Returned_from("low_weight_hom") =>
        \A pairs \in orderings(pre[NORMAL]) :
            ToSet(low_weight_hom(given_in_order(pairs), TRUE).alleles[NORMAL])
                = ToSet(alleles[NORMAL])

-----------------------------------------------------------------------------
(* C26: filter 10 and the ABO indel on the two genome builds *)

\* the ABO indel as the reference allele names it on GRCh38 and on GRCh37
ABO_indel == { "9:133257521_T_TC", "9:136132908_T_TC" }

\* no defining variant of a reference allele of the pair is absent from the
\* variant pool, the ABO indel left aside
only_ABO_indel_absent(pair) ==
    \A allele \in PairAlleles(pair) :
        allele.reference =>
            \A variant \in allele.defining_variants :
                variant \in DOMAIN variant_pool \/ variant \in ABO_indel

\* C26: filter 10 never removes a pair solely because the ABO indel, named
\* "9:133257521_T_TC" on GRCh38 or "9:136132908_T_TC" on GRCh37, is absent
\* from the variant pool
C26_ABOIndelExemptOnBothBuilds ==
    Returned_from("no_defining_variant") =>
        \A i \in 1..Len(pre[NORMAL]) :
            only_ABO_indel_absent(pre[NORMAL][i]) =>
                InPairs(pre[NORMAL][i], alleles[NORMAL])

-----------------------------------------------------------------------------
(* C27: filter 3 and the homozygous allele under two opposite alleles *)

\* the heterozygous defining variants of an allele
het_defining_variants(allele) ==
    { v \in allele.defining_variants : Get(variant_pool, v) = HET }

\* the allele has heterozygous variants, all of them in the ordered phase
\* ph of the phase set ps
het_variants_in(allele, ph, ps) ==
    /\ het_defining_variants(allele) # { }
    /\ \A v \in het_defining_variants(allele) :
          Get(variant_pool_phase, v) = ph /\ Get(variant_pool_phase_set, v) = ps

\* the two alleles of the pair lie in opposite phases of one phase set
in_opposite_phases(pair) ==
    \E ps \in { "100", "200" } :
        \/ het_variants_in(pair.allele1, "1|0", ps) /\ het_variants_in(pair.allele2, "0|1", ps)
        \/ het_variants_in(pair.allele1, "0|1", ps) /\ het_variants_in(pair.allele2, "1|0", ps)

\* an allele of the state, all homozygous with defining variants, contained
\* in both alleles of a pair of the state that lies in opposite phases
hom_under_opposite_alleles(h, pairs) ==
    /\ h.defining_variants # { }
    /\ all_hom(h)
    /\ \E i \in 1..Len(pairs) :
          /\ in_opposite_phases(pairs[i])
          /\ contained(h, pairs[i].allele1)
          /\ contained(h, pairs[i].allele2)

\* C27: when NORMAL holds a pair whose alleles lie in opposite ordered phases
\* of one phase set and an all-homozygous allele with defining variants is
\* contained in both, filter 3 removes every pair that contains that allele
C27_HomUnderOppositeAllelesRemoved ==
    Returned_from("filter_on_in_relationship_if_HET_vars_on_dif_side_and_phased") /\ last.phased =>
        \A h \in flatten_alleles(pre[NORMAL]) :
            hom_under_opposite_alleles(h, pre[NORMAL]) =>
                \A i \in 1..Len(pre[NORMAL]) :
                    h \in PairAlleles(pre[NORMAL][i]) =>
                        ~InPairs(pre[NORMAL][i], alleles[NORMAL])

-----------------------------------------------------------------------------
(* C28: filter 8 and the pair that supersedes the reference *)

\* the non-homozygous variants of the allele lie in a single phase set and
\* carry a single phase
phase_resolved(allele) ==
    /\ check_phase(variant_pool_phase_set, allele, ".")
    /\ check_phase(variant_pool_phase, allele, "1/1")

has_reference(pair) == pair.allele1.reference \/ pair.allele2.reference

\* a reference-free pair of the list has both alleles phase-resolved
resolved_ref_free_pair_in(pairs) ==
    \E i \in 1..Len(pairs) :
        /\ ~has_reference(pairs[i])
        /\ phase_resolved(pairs[i].allele1)
        /\ phase_resolved(pairs[i].allele2)

\* C28: filter 8 removes pairs with a reference allele only if NORMAL holds
\* a reference-free pair with both alleles phase-resolved; its eligibility
\* test gives the same answer for a pair and for the pair with its alleles
\* swapped; and it never removes a reference-free pair
C28_ReferenceSupersededByResolvedPair ==
    Returned_from("rm_ref_if_2x_HET_phased") =>
        /\ Len(alleles[NORMAL]) < Len(pre[NORMAL]) =>
              resolved_ref_free_pair_in(pre[NORMAL])
        /\ \A i \in 1..Len(pre[NORMAL]) :
              possible_to_use_phase(pre[NORMAL][i])
                  = possible_to_use_phase(Pair(pre[NORMAL][i].allele2,
                                               pre[NORMAL][i].allele1))
        /\ \A i \in 1..Len(pre[NORMAL]) :
              ~has_reference(pre[NORMAL][i]) =>
                  InPairs(pre[NORMAL][i], alleles[NORMAL])

-----------------------------------------------------------------------------
(* C30: the assertions of filters 8 and 9 in the pipeline *)

\* the pipeline is about to call the filter of that name
about_to_call(filter_name) ==
    /\ err = "none"
    /\ \E k \in 1..NumFilters :
          FilterNames[k] = filter_name /\ pc \in { k, NumFilters + k }

\* the pairs on which the filter evaluates its assertion
asserted_on(filter_name) ==
    SelectSeq(alleles[NORMAL],
        LAMBDA pair :
            /\ possible_to_use_phase(pair)
            /\ filter_name = "rm_ref_if_2x_HET_phased" =>
                  ~(pair.allele1.reference \/ pair.allele2.reference))

\* C30: in the pipeline, where filters 1 to 7 have run before filter 8 and
\* filter 8 before filter 9, every pair on which filter 8 or filter 9
\* evaluates "assert phase1 != phase2" has two alleles whose sets of phase
\* strings differ, and neither filter ends with an AssertionError
C30_PhaseAssertionsHoldInPipeline ==
    /\ \A filter_name \in { "rm_ref_if_2x_HET_phased", "low_weight_hom" } :
          about_to_call(filter_name) =>
              \A i \in 1..Len(asserted_on(filter_name)) :
                  ~same_allele_phase(asserted_on(filter_name)[i])
    /\ last.filter \in { "rm_ref_if_2x_HET_phased", "low_weight_hom" } =>
          err # "AssertionError"

\* filter 9 of the pipeline has returned and a pair on which filters 8 and 9
\* evaluated the assertion is in NORMAL
C30_Witness ==
    /\ InPipeline
    /\ err = "none"
    /\ last.filter = "low_weight_hom"
    /\ \E i \in 1..Len(alleles[NORMAL]) :
          /\ possible_to_use_phase(alleles[NORMAL][i])
          /\ ~(alleles[NORMAL][i].allele1.reference \/ alleles[NORMAL][i].allele2.reference)
          /\ ~same_allele_phase(alleles[NORMAL][i])

-----------------------------------------------------------------------------
(* C21: an alphanumeric token without an expression sign *)

\* a token of the alphanumeric profile has no "+" or "-" and is the name of
\* an antigen the numeric profile names
unsigned_token_named_by_numeric ==
    /\ NumericParser_parse("RH", numeric).raised = "none"
    /\ \E i \in 1..Len(tokens_of(alpha)) :
          /\ sign_index(tokens_of(alpha)[i]) = 0
          /\ \E j \in 1..Len(NumericParser_parse("RH", numeric).antigens) :
                /\ NumericParser_parse("RH", numeric).antigens[j].name \in DOMAIN sys_map
                /\ sys_map[NumericParser_parse("RH", numeric).antigens[j].name]
                     = tokens_of(alpha)[i]

\* C21: compare_antigen_profiles returns False, and does not raise, when a
\* token of the alphanumeric profile carries no "+" or "-" while the
\* numeric profile names that antigen
C21_UnsignedTokenComparesFalse ==
    compared # "not called" /\ unsigned_token_named_by_numeric =>
        compared = "False"

====
